---- MODULE Spec2Model ----
(***************************************************************************)
(* Model of the survey-cleaning scripts main.py and stuff.py.              *)
(*                                                                         *)
(* Text is a sequence of one-character strings.  A raw CSV cell is a       *)
(* record [na, s]: na is pandas' missing value (what pd.isna answers).     *)
(* A float is a record [nan, num, den]: NaN, or the exact rational         *)
(* num/den in lowest terms with den > 0 (binary rounding is not modelled). *)
(***************************************************************************)
EXTENDS Integers, Sequences, FiniteSets, TLC

VARIABLES
    script,       \* which script runs: "main.py" or "stuff.py" ("" in SpecFunctions)
    pc,           \* position in the script
    file_exists,  \* whether the input CSV is on disk
    columns,      \* df_raw.columns: the header set of the input CSV
    df_raw,       \* the input rows: a sequence of responses
    col,          \* main.py: col_pathway .. col_stress_reason (None when not found)
    df,           \* the derived table (one record per raw row)
    df_analysis,  \* the filtered table
    df_poly,      \* the Poly rows of df_analysis
    df_jc,        \* the JC rows of df_analysis
    summary,      \* main.py: the numbers of summary_lines
    tests,        \* stuff.py: the two t-tests' inputs and outputs
    files,        \* output files written so far
    outdir,       \* whether OUTPUT_DIR has been created
    error,        \* the exception that ended the run, or NoError
    x,            \* SpecFunctions: the argument of the call
    result        \* SpecFunctions: what the call returned

vars == <<script, pc, file_exists, columns, df_raw, col, df, df_analysis, df_poly,
          df_jc, summary, tests, files, outdir, error, x, result>>

-----------------------------------------------------------------------------
(* Bounds of the model *)

\* longest numeric cell text enumerated for parse_number
MaxLen == 4
\* most fragments concatenated into a pathway cell text
MaxFrags == 3
\* most rows of an input table in Spec
MaxRows == 2
\* largest JC group of the two-sample tables in SpecWelch
MaxJC == 2
\* largest Poly group of the two-sample tables in SpecWelch
MaxPoly == 4

-----------------------------------------------------------------------------
(* Text *)

Digits == <<"0", "1", "2", "3", "4", "5", "6", "7", "8", "9">>

UpperAlpha == <<"A", "B", "C", "D", "E", "F", "G", "H", "I", "J", "K", "L", "M",
                "N", "O", "P", "Q", "R", "S", "T", "U", "V", "W", "X", "Y", "Z">>

LowerAlpha == <<"a", "b", "c", "d", "e", "f", "g", "h", "i", "j", "k", "l", "m",
                "n", "o", "p", "q", "r", "s", "t", "u", "v", "w", "x", "y", "z">>

Range(f) == {f[i] : i \in DOMAIN f}

\* regex \d
IsDigit(c) == c \in Range(Digits)

\* regex \s and the characters str.strip() removes
IsSpace(c) == c = " "

DigitVal(c) == (CHOOSE i \in DOMAIN Digits : Digits[i] = c) - 1

\* str.lower() on one character
LowerChar(c) ==
    IF c \in Range(UpperAlpha)
    THEN LowerAlpha[CHOOSE i \in DOMAIN UpperAlpha : UpperAlpha[i] = c]
    ELSE c

\* str.lower()
Lower(s) == [i \in DOMAIN s |-> LowerChar(s[i])]

\* str.strip()
Strip(s) ==
    LET keep == {i \in DOMAIN s : ~IsSpace(s[i])}
    IN  IF keep = {} THEN <<>>
        ELSE LET lo == CHOOSE i \in keep : \A j \in keep : i <= j
                 hi == CHOOSE i \in keep : \A j \in keep : j <= i
             IN  SubSeq(s, lo, hi)

\* Python's `sub in s`
Contains(s, sub) ==
    \E i \in 1..(Len(s) - Len(sub) + 1) : SubSeq(s, i, i + Len(sub) - 1) = sub

\* a missing cell (NaN) and a cell holding text
NA == [na |-> TRUE, s |-> <<>>]

Text(s) == [na |-> FALSE, s |-> s]

\* pd.isna(x) on a cell
IsNa(c) == c.na

-----------------------------------------------------------------------------
(* Floats as exact rationals *)

Abs(n) == IF n < 0 THEN -n ELSE n

RECURSIVE Gcd(_, _)
Gcd(a, b) == IF b = 0 THEN a ELSE Gcd(b, a % b)

NaN == [nan |-> TRUE, num |-> 0, den |-> 1]

\* the float n/d, d # 0, in lowest terms
Rat(n, d) ==
    LET g == Gcd(Abs(n), Abs(d))
        sgn == IF d < 0 THEN -1 ELSE 1
    IN  [nan |-> FALSE, num |-> sgn * (n \div g), den |-> sgn * (d \div g)]

Num(n) == Rat(n, 1)

\* float arithmetic: NaN propagates
FAdd(a, b) ==
    IF a.nan \/ b.nan THEN NaN
    ELSE LET g == Gcd(a.den, b.den)
         IN  Rat(a.num * (b.den \div g) + b.num * (a.den \div g), (a.den \div g) * b.den)

FNeg(a) == IF a.nan THEN NaN ELSE [a EXCEPT !.num = -a.num]

FSub(a, b) == FAdd(a, FNeg(b))

FMul(a, b) ==
    IF a.nan \/ b.nan THEN NaN
    ELSE LET g1 == Gcd(Abs(a.num), b.den)
             g2 == Gcd(Abs(b.num), a.den)
         IN  Rat((a.num \div g1) * (b.num \div g2), (a.den \div g2) * (b.den \div g1))

\* numpy float64 division.  0/0 and NaN/0 are NaN; a non-zero finite value is
\* never divided by zero here (a zero count or a zero n - 1 comes with a NaN
\* variance), and the t statistics, where it can be, are built by TStat
FDiv(a, b) ==
    IF a.nan \/ b.nan \/ b.num = 0 THEN NaN
    ELSE FMul(a, Rat(b.den, b.num))

\* float comparisons: every comparison with NaN is False
FLt(a, b) == ~a.nan /\ ~b.nan /\ a.num * b.den < b.num * a.den

FGt(a, b) == FLt(b, a)

FLe(a, b) == ~a.nan /\ ~b.nan /\ a.num * b.den <= b.num * a.den

-----------------------------------------------------------------------------
(* normalize_pathway: main.py and stuff.py *)

\* the string literals of the two functions
Lit_jc == <<"j", "c">>

Lit_junior == <<"j", "u", "n", "i", "o", "r">>

Lit_poly == <<"p", "o", "l", "y">>

Lit_polytechnic == <<"p", "o", "l", "y", "t", "e", "c", "h", "n", "i", "c">>

\* a normalize_pathway that tests Poly before JC
normalize_pathway_swapped(c) ==
    IF IsNa(c) THEN "NaN"
    ELSE LET s == Lower(Strip(c.s))
         IN  IF Contains(s, Lit_poly) \/ Contains(s, Lit_polytechnic) THEN "Poly"
             ELSE IF Contains(s, Lit_jc) \/ Contains(s, Lit_junior) THEN "JC"
             ELSE "NaN"

\* main.py normalize_pathway
normalize_pathway(c) ==
    IF IsNa(c) THEN "NaN"
    ELSE LET s == Lower(Strip(c.s))
         IN  IF Contains(s, Lit_jc) \/ Contains(s, Lit_junior) THEN "JC"
             ELSE IF Contains(s, Lit_poly) \/ Contains(s, Lit_polytechnic) THEN "Poly"
             ELSE "NaN"

\* stuff.py normalize_pathway
normalize_pathway_stuff(c) ==
    IF IsNa(c) THEN "NaN"
    ELSE LET s == Lower(Strip(c.s))
         IN  IF Contains(s, Lit_jc) THEN "JC"
             ELSE IF Contains(s, Lit_poly) THEN "Poly"
             ELSE "NaN"

-----------------------------------------------------------------------------
(* parse_number (main.py) and parse_num (stuff.py) *)

\* index of the last character of the longest run of characters satisfying
\* the class (digits: TRUE, whitespace: FALSE) that starts at i; i - 1 when
\* the run is empty: the greedy \d+ and \s*
RECURSIVE RunEnd(_, _, _)
RunEnd(s, i, digits) ==
    IF i <= Len(s) /\ (IF digits THEN IsDigit(s[i]) ELSE IsSpace(s[i]))
    THEN RunEnd(s, i + 1, digits)
    ELSE i - 1

\* re.match of \d+\s*-\s*\d+ at position i.  Giving back digits or spaces
\* of a greedy run never helps: the character after a shortened run is a
\* digit or a space, which the next pattern element cannot be.
RangeMatchAt(s, i) ==
    /\ i <= Len(s) /\ IsDigit(s[i])
    /\ LET h == RunEnd(s, RunEnd(s, i, TRUE) + 1, FALSE) + 1
       IN  /\ h <= Len(s) /\ s[h] = "-"
           /\ LET d == RunEnd(s, h + 1, FALSE) + 1
              IN  d <= Len(s) /\ IsDigit(s[d])

\* re.search(r"\d+\s*-\s*\d+", s) is not None
SearchRange(s) == \E i \in 1..Len(s) : RangeMatchAt(s, i)

\* re.search(r"(\d+(\.\d+)?)", s): <<start, end>> of group(1), <<0, 0>> for None
SearchNumber(s) ==
    LET starts == {i \in 1..Len(s) : IsDigit(s[i])}
    IN  IF starts = {} THEN <<0, 0>>
        ELSE LET i == CHOOSE a \in starts : \A b \in starts : a <= b
                 j == RunEnd(s, i, TRUE)
             IN  IF j + 2 <= Len(s) /\ s[j + 1] = "." /\ IsDigit(s[j + 2])
                 THEN <<i, RunEnd(s, j + 2, TRUE)>>
                 ELSE <<i, j>>

RECURSIVE IntOf(_)
IntOf(t) ==
    IF t = <<>> THEN 0 ELSE 10 * IntOf(SubSeq(t, 1, Len(t) - 1)) + DigitVal(t[Len(t)])

RECURSIVE Pow10(_)
Pow10(n) == IF n = 0 THEN 1 ELSE 10 * Pow10(n - 1)

\* float(t) for t of the form digits or digits.digits
FloatOf(t) ==
    LET dots == {i \in 1..Len(t) : t[i] = "."}
    IN  IF dots = {} THEN Num(IntOf(t))
        ELSE LET p == CHOOSE i \in dots : TRUE
                 frac == SubSeq(t, p + 1, Len(t))
             IN  FAdd(Num(IntOf(SubSeq(t, 1, p - 1))), Rat(IntOf(frac), Pow10(Len(frac))))

\* a parse that does not reject ranges
parse_number_keeps_ranges(c) ==
    IF IsNa(c) THEN NaN
    ELSE LET s == Strip(c.s)
             m == SearchNumber(s)
         IN  IF m = <<0, 0>> THEN NaN ELSE FloatOf(SubSeq(s, m[1], m[2]))

\* a parse that honours a leading minus sign
parse_number_signed(c) ==
    IF IsNa(c) THEN NaN
    ELSE LET s == Strip(c.s)
             m == SearchNumber(s)
         IN  IF SearchRange(s) THEN NaN
             ELSE IF m = <<0, 0>> THEN NaN
             ELSE IF m[1] > 1 /\ s[m[1] - 1] = "-"
                  THEN FNeg(FloatOf(SubSeq(s, m[1], m[2])))
                  ELSE FloatOf(SubSeq(s, m[1], m[2]))

\* main.py parse_number
parse_number(c) ==
    IF IsNa(c) THEN NaN
    ELSE LET s == Strip(c.s)
             m == SearchNumber(s)
         IN  IF SearchRange(s) THEN NaN
             ELSE IF m = <<0, 0>> THEN NaN
             ELSE FloatOf(SubSeq(s, m[1], m[2]))

\* stuff.py parse_num
parse_num(c) ==
    IF IsNa(c) THEN NaN
    ELSE LET s == Strip(c.s)
             m == SearchNumber(s)
         IN  IF SearchRange(s) THEN NaN
             ELSE IF m # <<0, 0>> THEN FloatOf(SubSeq(s, m[1], m[2])) ELSE NaN

-----------------------------------------------------------------------------
(* The inputs enumerated for the two functions *)

RECURSIVE Flatten(_)
Flatten(ss) == IF ss = <<>> THEN <<>> ELSE Head(ss) \o Flatten(Tail(ss))

\* pieces of pathway answers: split so that "jc", "Jc", "junior", "JUNIOR",
\* "jc poly", "Junior Poly" ... all arise by concatenation
PathwayFragments ==
    { <<"j">>, <<"J">>, <<"c">>, <<"C">>,
      <<"u", "n", "i", "o", "r">>, <<"U", "N", "I", "O", "R">>,
      <<"p", "o", "l", "y">>, <<"P", "O", "L", "Y">>,
      <<" ">>, <<"x">> }

NumberChars == {"1", "5", ".", "-", " ", "h"}

\* the arguments enumerated: a missing cell, the pathway texts of up to
\* MaxFrags fragments, the numeric texts of up to MaxLen characters
IsFunctionInput(c) ==
    \/ c = NA
    \/ \E k \in 0..MaxFrags : \E ss \in [1..k -> PathwayFragments] : c = Text(Flatten(ss))
    \/ \E k \in 0..MaxLen : \E s \in [1..k -> NumberChars] : c = Text(s)

NoResult == [fn |-> "", pathway |-> "", number |-> NaN]

NoError == [type |-> "", found |-> {}, missing |-> {}]

None == "None"

\* the values of the pipeline's variables while only a function is called
IdlePipeline ==
    /\ script = "" /\ file_exists = FALSE /\ columns = {} /\ df_raw = <<>>
    /\ col = <<>> /\ df = <<>> /\ df_analysis = <<>> /\ df_poly = <<>> /\ df_jc = <<>>
    /\ summary = <<>> /\ tests = <<>> /\ files = {} /\ outdir = FALSE /\ error = NoError

pipelineVars == <<script, file_exists, columns, df_raw, col, df, df_analysis, df_poly,
                  df_jc, summary, tests, files, outdir, error>>

InitFunctions ==
    /\ IdlePipeline
    /\ pc = "call"
    /\ IsFunctionInput(x)
    /\ result = NoResult

\* a call of main.py's normalize_pathway
CallNormalizePathwayMain ==
    /\ pc = "call"
    /\ result' = [fn |-> "main.normalize_pathway", pathway |-> normalize_pathway(x),
                  number |-> NaN]
    /\ pc' = "returned"
    /\ UNCHANGED <<x, pipelineVars>>

\* a call of stuff.py's normalize_pathway
CallNormalizePathwayStuff ==
    /\ pc = "call"
    /\ result' = [fn |-> "stuff.normalize_pathway", pathway |-> normalize_pathway_stuff(x),
                  number |-> NaN]
    /\ pc' = "returned"
    /\ UNCHANGED <<x, pipelineVars>>

\* a call of main.py's parse_number
CallParseNumber ==
    /\ pc = "call"
    /\ result' = [fn |-> "main.parse_number", pathway |-> "", number |-> parse_number(x)]
    /\ pc' = "returned"
    /\ UNCHANGED <<x, pipelineVars>>

\* a call of stuff.py's parse_num
CallParseNum ==
    /\ pc = "call"
    /\ result' = [fn |-> "stuff.parse_num", pathway |-> "", number |-> parse_num(x)]
    /\ pc' = "returned"
    /\ UNCHANGED <<x, pipelineVars>>

NextFunctions ==
    \/ CallNormalizePathwayMain
    \/ CallNormalizePathwayStuff
    \/ CallParseNumber
    \/ CallParseNum

SpecFunctions == InitFunctions /\ [][NextFunctions]_vars

-----------------------------------------------------------------------------
(* The input file: headers and responses *)

H_Pathway1 == "Are you from JC or Poly?"

H_Daily1 == "On Average, how many hours do you study per day outside of school (number only)"

H_Exam1 == "On Average, how many hours do you study per day outside of school during exam week (number only)"

H_Stress1 == "On a scale of 1-10, how stressed are you?"

H_Reason1 == "Why did you choose that stress level?"

\* main.py's candidate lists, in priority order
PathwayCandidates ==
    <<H_Pathway1, "Are you from JC or Poly", "JC or Poly", "Pathway">>

DailyNormalCandidates ==
    <<H_Daily1,
      "On Average, how many hours do you study per day outside of school",
      "Study hours per day outside school (normal week)",
      "StudyHours_Normal">>

DailyExamCandidates ==
    <<H_Exam1,
      "On Average, how many hours do you study per day outside of school during exam week",
      "Study hours per day outside school (exam week)",
      "StudyHours_Exam">>

StressCandidates ==
    <<H_Stress1, "On a scale of 1-10, how stressed are you", "Stress level", "Stress">>

StressReasonCandidates ==
    <<H_Reason1, "Why did you choose that stress level", "Stress reason", "Reason">>

\* stuff.py's fixed column names
COL_PATHWAY == H_Pathway1

COL_DAILY == H_Daily1

COL_STRESS == H_Stress1

COL_REASON == H_Reason1

\* main.py pick_column
pick_column(cols, candidates) ==
    LET found == {i \in DOMAIN candidates : candidates[i] \in cols}
    IN  IF found = {} THEN None
        ELSE candidates[CHOOSE i \in found : \A j \in found : i <= j]

\* the headers input files are built from: the form's own headers, a
\* lower-priority alias of the pathway header, and an unrelated column
FullHeaders == {H_Pathway1, H_Daily1, H_Exam1, H_Stress1, H_Reason1, "Timestamp"}

HeaderUniverse == FullHeaders \cup {"Pathway"}

FieldOf(h) ==
    IF h \in Range(PathwayCandidates) THEN "pathway"
    ELSE IF h \in Range(DailyNormalCandidates) THEN "daily"
    ELSE IF h \in Range(DailyExamCandidates) THEN "exam"
    ELSE IF h \in Range(StressCandidates) THEN "stress"
    ELSE IF h \in Range(StressReasonCandidates) THEN "reason"
    ELSE "timestamp"

PathwayCells == {NA, Text(<<"J", "C">>), Text(<<"p", "o", "l", "y">>)}

DailyCells ==
    {NA, Text(<<"-", "0", ".", "5">>), Text(<<"9">>), Text(<<"1", "2">>), Text(<<"1", "3">>)}

\* the answers of one respondent to the other questions: all left empty, or all given
OtherCells ==
    { [exam |-> NA, stress |-> NA, reason |-> NA, timestamp |-> Text(<<"t">>)],
      [exam |-> Text(<<"-", "2">>), stress |-> Text(<<"-", "7">>),
       reason |-> Text(<<"x">>), timestamp |-> Text(<<"t">>)] }

Responses ==
    {[pathway |-> p, daily |-> d, exam |-> o.exam, stress |-> o.stress,
      reason |-> o.reason, timestamp |-> o.timestamp] :
        p \in PathwayCells, d \in DailyCells, o \in OtherCells}

\* one CSV row under the header set cols
RowOf(resp, cols) == [h \in cols |-> resp[FieldOf(h)]]

TableOf(resps, cols) == [i \in DOMAIN resps |-> RowOf(resps[i], cols)]

\* df[c] for one row; a column that is absent reads as missing (the scripts
\* raise before they read an absent column)
CellOf(row, c) == IF c \in DOMAIN row THEN row[c] ELSE NA

-----------------------------------------------------------------------------
(* Series reductions *)

RECURSIVE FSum(_)
FSum(vs) == IF vs = <<>> THEN Num(0) ELSE FAdd(Head(vs), FSum(Tail(vs)))

NotNan(v) == ~v.nan

\* Series.mean(): NaN values are skipped, NaN for an empty series
Mean(vs) ==
    LET xs == SelectSeq(vs, NotNan)
    IN  IF xs = <<>> THEN NaN ELSE FDiv(FSum(xs), Num(Len(xs)))

\* Series.std(ddof=1) squared: NaN when fewer than 2 values are left
Var(vs) ==
    LET xs == SelectSeq(vs, NotNan)
        m == Mean(xs)
        sq == [i \in DOMAIN xs |-> FMul(FSub(xs[i], m), FSub(xs[i], m))]
    IN  IF Len(xs) < 2 THEN NaN ELSE FDiv(FSum(sq), Num(Len(xs) - 1))

\* the column StudyHours_Weekly_Normal of a table, as a Series: row label and value
Weekly(table) ==
    [i \in DOMAIN table |->
        [index |-> table[i].index, value |-> table[i].StudyHours_Weekly_Normal]]

Values(series) == [i \in DOMAIN series |-> series[i].value]

-----------------------------------------------------------------------------
(* main.py *)

\* line 140, first operand
BelowZero(v) == FLt(v, Num(0))

\* line 140, second operand
AbovePlausible(v) == FGt(v, Num(12))

\* line 143
VeryHigh(v) == FGt(v, Num(8))

\* Series.astype(str) of one cell.  A missing cell becomes the text "nan"
\* where the column has object dtype, and stays missing where pandas reads
\* text columns with its str dtype: keep_na says which pandas runs.
AstypeStr(c, keep_na) ==
    IF c.na THEN (IF keep_na THEN NA ELSE Text(<<"n", "a", "n">>)) ELSE c

\* a check that only looks for the pathway column
MissingMappings_pathway_only(c) ==
    {k \in {"pathway"} : c[k] = None}

\* lines 93-94: the required mappings that are None
MissingMappings(c) ==
    {k \in {"pathway", "daily_normal"} : c[k] = None}

\* lines 102-132: one derived row
BuildRow(row, i, c, keep_na) ==
    LET daily == parse_number(CellOf(row, c.daily_normal))
    IN  [index |-> i - 1,
         RespondentID |-> i,
         Pathway |-> normalize_pathway(CellOf(row, c.pathway)),
         StudyHours_Daily_Normal |-> daily,
         StudyHours_Daily_Exam |->
             IF c.daily_exam # None THEN parse_number(CellOf(row, c.daily_exam)) ELSE NaN,
         StressLevel |->
             IF c.stress # None THEN parse_number(CellOf(row, c.stress)) ELSE NaN,
         StressReason_Raw |->
             IF c.stress_reason # None
             THEN AstypeStr(CellOf(row, c.stress_reason), keep_na)
             ELSE Text(<<>>),
         StudyHours_Weekly_Normal |-> FMul(daily, Num(7))]

\* lines 136-143: the four flags of one derived row
FlagsOf(r) ==
    [Flag_MissingPathway |-> r.Pathway = "NaN",
     Flag_MissingDaily |-> r.StudyHours_Daily_Normal.nan,
     Flag_OutlierDaily |->
         BelowZero(r.StudyHours_Daily_Normal) \/ AbovePlausible(r.StudyHours_Daily_Normal),
     Flag_VeryHighDaily |-> VeryHigh(r.StudyHours_Daily_Normal)]

Merge(r, q) ==
    [k \in DOMAIN r \cup DOMAIN q |-> IF k \in DOMAIN q THEN q[k] ELSE r[k]]

\* a filter that also drops the very high values
InAnalysisMain_drops_very_high(r) ==
    /\ r.Pathway \in {"JC", "Poly"}
    /\ ~r.StudyHours_Daily_Normal.nan
    /\ ~r.Flag_OutlierDaily
    /\ ~r.Flag_VeryHighDaily

\* lines 149-153: the row filter of df_analysis
InAnalysisMain(r) ==
    /\ r.Pathway \in {"JC", "Poly"}
    /\ ~r.StudyHours_Daily_Normal.nan
    /\ ~r.Flag_OutlierDaily

\* a split that keeps every analysis row in the Poly table
IsPoly_any(r) == TRUE

\* main.py line 156, stuff.py line 82
IsPoly(r) == r.Pathway = "Poly"

\* main.py line 157, stuff.py line 83
IsJC(r) == r.Pathway = "JC"

MainFiles ==
    {"clean_all_analysis_ready.csv", "clean_poly_one_sample.csv",
     "clean_jc_vs_poly_two_sample.csv", "summary_stats.txt"}

\* line 13
MainStart ==
    /\ script = "main.py" /\ pc = "start"
    /\ outdir' = TRUE
    /\ pc' = "load"
    /\ UNCHANGED <<script, file_exists, columns, df_raw, col, df, df_analysis, df_poly,
                   df_jc, summary, tests, files, error, x, result>>

\* line 55, the file is there
MainLoad ==
    /\ script = "main.py" /\ pc = "load"
    /\ file_exists
    /\ pc' = "mapping"
    /\ UNCHANGED <<script, file_exists, columns, df_raw, col, df, df_analysis, df_poly,
                   df_jc, summary, tests, files, outdir, error, x, result>>

\* line 55, the file is not there
MainLoadFail ==
    /\ script = "main.py" /\ pc = "load"
    /\ ~file_exists
    /\ error' = [type |-> "FileNotFoundError", found |-> {}, missing |-> {}]
    /\ pc' = "raised"
    /\ UNCHANGED <<script, file_exists, columns, df_raw, col, df, df_analysis, df_poly,
                   df_jc, summary, tests, files, outdir, x, result>>

\* lines 58-91
MainColumnMapping ==
    /\ script = "main.py" /\ pc = "mapping"
    /\ col' = [pathway |-> pick_column(columns, PathwayCandidates),
               daily_normal |-> pick_column(columns, DailyNormalCandidates),
               daily_exam |-> pick_column(columns, DailyExamCandidates),
               stress |-> pick_column(columns, StressCandidates),
               stress_reason |-> pick_column(columns, StressReasonCandidates)]
    /\ pc' = "check"
    /\ UNCHANGED <<script, file_exists, columns, df_raw, df, df_analysis, df_poly,
                   df_jc, summary, tests, files, outdir, error, x, result>>

\* lines 93-99: a required mapping is None
MainMissingColumns ==
    /\ script = "main.py" /\ pc = "check"
    /\ MissingMappings(col) # {}
    /\ error' = [type |-> "ValueError", found |-> columns, missing |-> MissingMappings(col)]
    /\ pc' = "raised"
    /\ UNCHANGED <<script, file_exists, columns, df_raw, col, df, df_analysis, df_poly,
                   df_jc, summary, tests, files, outdir, x, result>>

\* lines 93-132: both required mappings found, the derived columns are built
MainBuildClean ==
    /\ script = "main.py" /\ pc = "check"
    /\ MissingMappings(col) = {}
    /\ \E keep_na \in BOOLEAN :
          df' = [i \in DOMAIN df_raw |-> BuildRow(df_raw[i], i, col, keep_na)]
    /\ pc' = "flags"
    /\ UNCHANGED <<script, file_exists, columns, df_raw, col, df_analysis, df_poly,
                   df_jc, summary, tests, files, outdir, error, x, result>>

\* lines 136-143
MainFlags ==
    /\ script = "main.py" /\ pc = "flags"
    /\ df' = [i \in DOMAIN df |-> Merge(df[i], FlagsOf(df[i]))]
    /\ pc' = "filter"
    /\ UNCHANGED <<script, file_exists, columns, df_raw, col, df_analysis, df_poly,
                   df_jc, summary, tests, files, outdir, error, x, result>>

\* lines 149-157
MainFilter ==
    /\ script = "main.py" /\ pc = "filter"
    /\ df_analysis' = SelectSeq(df, InAnalysisMain)
    /\ df_poly' = SelectSeq(df_analysis', IsPoly)
    /\ df_jc' = SelectSeq(df_analysis', IsJC)
    /\ pc' = "summary"
    /\ UNCHANGED <<script, file_exists, columns, df_raw, col, df,
                   summary, tests, files, outdir, error, x, result>>

\* lines 160-175: the numbers printed; sd2 is the square of the printed sd
MainSummary ==
    /\ script = "main.py" /\ pc = "summary"
    /\ summary' = [raw_rows |-> Len(df_raw),
                   analysis_rows |-> Len(df_analysis),
                   poly_n |-> Len(df_poly),
                   jc_n |-> Len(df_jc),
                   poly_mean |-> Mean(Values(Weekly(df_poly))),
                   poly_sd2 |-> Var(Values(Weekly(df_poly))),
                   jc_mean |-> Mean(Values(Weekly(df_jc))),
                   jc_sd2 |-> Var(Values(Weekly(df_jc)))]
    /\ pc' = "export"
    /\ UNCHANGED <<script, file_exists, columns, df_raw, col, df, df_analysis, df_poly,
                   df_jc, tests, files, outdir, error, x, result>>

\* lines 192-200
MainExport ==
    /\ script = "main.py" /\ pc = "export"
    /\ files' = files \cup MainFiles
    /\ pc' = "done"
    /\ UNCHANGED <<script, file_exists, columns, df_raw, col, df, df_analysis, df_poly,
                   df_jc, summary, tests, outdir, error, x, result>>

NextMain ==
    \/ MainStart
    \/ MainLoad
    \/ MainLoadFail
    \/ MainColumnMapping
    \/ MainMissingColumns
    \/ MainBuildClean
    \/ MainFlags
    \/ MainFilter
    \/ MainSummary
    \/ MainExport

-----------------------------------------------------------------------------
(* stuff.py *)

\* line 150
theta0 == Rat(31, 2)

\* lines 56-63: one derived row of df_clean
StuffBuildRow(row, i, keep_na) ==
    LET daily == parse_num(CellOf(row, COL_DAILY))
    IN  [index |-> i - 1,
         RespondentID |-> i,
         Pathway |-> normalize_pathway_stuff(CellOf(row, COL_PATHWAY)),
         StudyHours_Daily_Normal |-> daily,
         StudyHours_Weekly_Normal |-> FMul(Num(7), daily),
         StressLevel |-> parse_num(CellOf(row, COL_STRESS)),
         StressReason |-> AstypeStr(CellOf(row, COL_REASON), keep_na),
         Flag_VeryHighDaily |-> VeryHigh(daily)]

\* the columns lines 56-60 read, in the order they read them
StuffColumns == <<COL_PATHWAY, COL_DAILY, COL_STRESS, COL_REASON>>

\* a filter that forgets the notna() test
InAnalysisStuff_pathway_only(r) ==
    r.Pathway \in {"JC", "Poly"}

\* lines 77-80: the row filter of df_analysis
InAnalysisStuff(r) ==
    /\ r.Pathway \in {"JC", "Poly"}
    /\ ~r.StudyHours_Daily_Normal.nan

\* a t statistic numer / sqrt(den2): NaN, +-inf, or its sign and its square
TNaN == [nan |-> TRUE, inf |-> FALSE, sign |-> 0, sq |-> NaN]

Sign(v) == IF v.num > 0 THEN 1 ELSE IF v.num < 0 THEN -1 ELSE 0

TStat(numer, den2) ==
    IF numer.nan \/ den2.nan THEN TNaN
    ELSE IF den2.num = 0
         THEN (IF numer.num = 0 THEN TNaN
               ELSE [nan |-> FALSE, inf |-> TRUE, sign |-> Sign(numer), sq |-> NaN])
    ELSE [nan |-> FALSE, inf |-> FALSE, sign |-> Sign(numer),
          sq |-> FDiv(FMul(numer, numer), den2)]

\* a p-value 1 - stats.t.cdf(t, df): only whether it is NaN is modelled
\* (the Student-t distribution function has no counterpart here); it is NaN
\* when t or df is NaN or df <= 0
PValue(t, dof) == [nan |-> t.nan \/ dof.nan \/ FLe(dof, Num(0))]

\* a degrees-of-freedom formula that divides by n instead of n - 1
WelchDf_n(vj, nj, vp, np_) ==
    LET a == FDiv(vj, Num(nj))
        b == FDiv(vp, Num(np_))
    IN  FDiv(FMul(FAdd(a, b), FAdd(a, b)),
             FAdd(FDiv(FMul(a, a), Num(nj)), FDiv(FMul(b, b), Num(np_))))

\* line 166, with vj = sj**2 and vp = sp**2
WelchDf(vj, nj, vp, np_) ==
    LET a == FDiv(vj, Num(nj))
        b == FDiv(vp, Num(np_))
    IN  FDiv(FMul(FAdd(a, b), FAdd(a, b)),
             FAdd(FDiv(FMul(a, a), Num(nj - 1)), FDiv(FMul(b, b), Num(np_ - 1))))

\* lines 152-167
RunTests(poly_weekly, jc_weekly) ==
    LET pv == Values(poly_weekly)
        jv == Values(jc_weekly)
        nj == Len(jv)
        np_ == Len(pv)
        xj == Mean(jv)
        xp == Mean(pv)
        vj == Var(jv)
        vp == Var(pv)
        t1 == TStat(FSub(xp, theta0), FDiv(vp, Num(np_)))
        t2 == TStat(FSub(xj, xp), FAdd(FDiv(vj, Num(nj)), FDiv(vp, Num(np_))))
        dfw == WelchDf(vj, nj, vp, np_)
    IN  [poly_weekly |-> poly_weekly, jc_weekly |-> jc_weekly,
         nj |-> nj, np_ |-> np_, xj |-> xj, xp |-> xp, sj2 |-> vj, sp2 |-> vp,
         t1 |-> t1, df1 |-> np_ - 1, p1 |-> PValue(t1, Num(np_ - 1)),
         t2 |-> t2, df_welch |-> dfw, p2_one_tailed |-> PValue(t2, dfw)]

StuffCsvFiles ==
    {"clean_presentable_all.csv", "clean_presentable_poly_only.csv",
     "clean_presentable_jc_vs_poly.csv"}

StuffChartFiles ==
    {"fig_pathway_bar.png", "fig_hist_daily_overall.png", "fig_box_weekly_jc_vs_poly.png"}

\* lines 12-21, an input file is there
StuffLoad ==
    /\ script = "stuff.py" /\ pc = "start"
    /\ file_exists
    /\ pc' = "clean"
    /\ UNCHANGED <<script, file_exists, columns, df_raw, col, df, df_analysis, df_poly,
                   df_jc, summary, tests, files, outdir, error, x, result>>

\* lines 17-19, none of the input candidates is there
StuffLoadFail ==
    /\ script = "stuff.py" /\ pc = "start"
    /\ ~file_exists
    /\ error' = [type |-> "FileNotFoundError", found |-> {}, missing |-> {}]
    /\ pc' = "raised"
    /\ UNCHANGED <<script, file_exists, columns, df_raw, col, df, df_analysis, df_poly,
                   df_jc, summary, tests, files, outdir, x, result>>

\* lines 56-60: the first column read that the file does not have
StuffMissingColumn ==
    /\ script = "stuff.py" /\ pc = "clean"
    /\ \E i \in DOMAIN StuffColumns :
          /\ StuffColumns[i] \notin columns
          /\ \A j \in 1..(i - 1) : StuffColumns[j] \in columns
          /\ error' = [type |-> "KeyError", found |-> {}, missing |-> {StuffColumns[i]}]
    /\ pc' = "raised"
    /\ UNCHANGED <<script, file_exists, columns, df_raw, col, df, df_analysis, df_poly,
                   df_jc, summary, tests, files, outdir, x, result>>

\* lines 47-74
StuffClean ==
    /\ script = "stuff.py" /\ pc = "clean"
    /\ Range(StuffColumns) \subseteq columns
    /\ \E keep_na \in BOOLEAN :
          df' = [i \in DOMAIN df_raw |-> StuffBuildRow(df_raw[i], i, keep_na)]
    /\ pc' = "filter"
    /\ UNCHANGED <<script, file_exists, columns, df_raw, col, df_analysis, df_poly,
                   df_jc, summary, tests, files, outdir, error, x, result>>

\* lines 77-84
StuffFilter ==
    /\ script = "stuff.py" /\ pc = "filter"
    /\ df_analysis' = SelectSeq(df, InAnalysisStuff)
    /\ df_poly' = SelectSeq(df_analysis', IsPoly)
    /\ df_jc' = SelectSeq(df_analysis', IsJC)
    /\ pc' = "save"
    /\ UNCHANGED <<script, file_exists, columns, df_raw, col, df,
                   summary, tests, files, outdir, error, x, result>>

\* lines 89-98
StuffSave ==
    /\ script = "stuff.py" /\ pc = "save"
    /\ outdir' = TRUE
    /\ files' = files \cup StuffCsvFiles
    /\ pc' = "charts"
    /\ UNCHANGED <<script, file_exists, columns, df_raw, col, df, df_analysis, df_poly,
                   df_jc, summary, tests, error, x, result>>

\* lines 109-140
StuffCharts ==
    /\ script = "stuff.py" /\ pc = "charts"
    /\ files' = files \cup StuffChartFiles
    /\ pc' = "tests"
    /\ UNCHANGED <<script, file_exists, columns, df_raw, col, df, df_analysis, df_poly,
                   df_jc, summary, tests, outdir, error, x, result>>

\* lines 150-171
StuffTests ==
    /\ script = "stuff.py" /\ pc = "tests"
    /\ tests' = RunTests(Weekly(df_poly), Weekly(df_jc))
    /\ pc' = "done"
    /\ UNCHANGED <<script, file_exists, columns, df_raw, col, df, df_analysis, df_poly,
                   df_jc, summary, files, outdir, error, x, result>>

NextStuff ==
    \/ StuffLoad
    \/ StuffLoadFail
    \/ StuffMissingColumn
    \/ StuffClean
    \/ StuffFilter
    \/ StuffSave
    \/ StuffCharts
    \/ StuffTests

-----------------------------------------------------------------------------
(* The specifications *)

\* the state before a script's first statement, given what is on disk
InitRun(s, exists, cols, rows) ==
    /\ script = s /\ pc = "start"
    /\ file_exists = exists /\ columns = cols /\ df_raw = rows
    /\ col = <<>> /\ df = <<>> /\ df_analysis = <<>> /\ df_poly = <<>> /\ df_jc = <<>>
    /\ summary = <<>> /\ tests = <<>> /\ files = {} /\ outdir = FALSE /\ error = NoError
    /\ x = NA /\ result = NoResult

\* input files: every non-empty header set over HeaderUniverse with at most
\* one response, and the form's own header set with up to MaxRows responses
Init ==
    \E s \in {"main.py", "stuff.py"} :
        \/ InitRun(s, FALSE, {}, <<>>)
        \/ \E cols \in (SUBSET HeaderUniverse) \ {{}}, k \in 0..MaxRows :
              /\ cols = FullHeaders \/ k <= 1
              /\ \E resps \in [1..k -> Responses] :
                    InitRun(s, TRUE, cols, TableOf(resps, cols))

Next == NextMain \/ NextStuff

Spec == Init /\ [][Next]_vars

\* two-sample input files for stuff.py: JC rows then Poly rows, each group a
\* non-decreasing sample of up to MaxJC and MaxPoly daily values
WelchDailyCells == <<Text(<<"0">>), Text(<<"1">>), Text(<<"3">>)>>

NonDecreasing(s) == \A i \in 1..(Len(s) - 1) : s[i] <= s[i + 1]

WelchResponse(p, d) ==
    [pathway |-> Text(p), daily |-> WelchDailyCells[d], exam |-> NA,
     stress |-> Text(<<"5">>), reason |-> Text(<<"x">>), timestamp |-> Text(<<"t">>)]

WelchTable(js, ps) ==
    TableOf([i \in DOMAIN js |-> WelchResponse(<<"J", "C">>, js[i])]
                \o [i \in DOMAIN ps |-> WelchResponse(<<"P", "o", "l", "y">>, ps[i])],
            Range(StuffColumns))

InitWelch ==
    \/ InitRun("stuff.py", FALSE, {}, <<>>)
    \/ InitRun("stuff.py", TRUE, {COL_PATHWAY}, <<>>)
    \/ \E nj \in 0..MaxJC, np_ \in 0..MaxPoly :
          \E js \in [1..nj -> DOMAIN WelchDailyCells], ps \in [1..np_ -> DOMAIN WelchDailyCells] :
              /\ NonDecreasing(js) /\ NonDecreasing(ps)
              /\ InitRun("stuff.py", TRUE, Range(StuffColumns), WelchTable(js, ps))

SpecWelch == InitWelch /\ [][NextStuff]_vars

-----------------------------------------------------------------------------
(* Properties of the two functions, stated on the raw argument *)

\* s contains lit in any letter case
ContainsAnyCase(s, lit) ==
    \E i \in 1..(Len(s) - Len(lit) + 1) :
        \A k \in 1..Len(lit) : LowerChar(s[i + k - 1]) = lit[k]

ExpectedPathway(c) ==
    IF c.na THEN "NaN"
    ELSE IF ContainsAnyCase(c.s, Lit_jc) \/ ContainsAnyCase(c.s, Lit_junior) THEN "JC"
    ELSE IF ContainsAnyCase(c.s, Lit_poly) \/ ContainsAnyCase(c.s, Lit_polytechnic) THEN "Poly"
    ELSE "NaN"

\* C6: in both scripts normalize_pathway returns JC for every text containing
\* "jc" or "junior" in any case (also when it contains "poly"), Poly for every
\* text containing "poly"/"polytechnic" and neither "jc" nor "junior", and
\* missing for missing input and every other text.
C6_NormalizePathwayBothVariants ==
    (pc = "returned" /\ result.fn \in {"main.normalize_pathway", "stuff.normalize_pathway"})
        => result.pathway = ExpectedPathway(x)

AllDigits(t) == Len(t) > 0 /\ \A i \in 1..Len(t) : IsDigit(t[i])

AllSpaces(t) == \A i \in 1..Len(t) : IsSpace(t[i])

\* t is of the form integer or integer.fraction
IsNumberToken(t) ==
    \/ AllDigits(t)
    \/ \E p \in 1..Len(t) :
          t[p] = "." /\ AllDigits(SubSeq(t, 1, p - 1)) /\ AllDigits(SubSeq(t, p + 1, Len(t)))

\* t is digits, optional whitespace, a hyphen, optional whitespace, digits
IsRangeText(t) ==
    \E a, h, b \in 1..Len(t) :
        /\ a < h /\ h < b
        /\ t[h] = "-"
        /\ AllDigits(SubSeq(t, 1, a)) /\ AllSpaces(SubSeq(t, a + 1, h - 1))
        /\ AllSpaces(SubSeq(t, h + 1, b - 1)) /\ AllDigits(SubSeq(t, b, Len(t)))

Substrings(s) == {<<i, j>> \in (1..Len(s)) \X (1..Len(s)) : i <= j}

HasRangeText(s) == \E ij \in Substrings(s) : IsRangeText(SubSeq(s, ij[1], ij[2]))

\* the leftmost, and among those the longest, substring that is a number token
FirstNumberTokens(s) ==
    {ij \in Substrings(s) :
        /\ IsNumberToken(SubSeq(s, ij[1], ij[2]))
        /\ \A kl \in Substrings(s) :
              IsNumberToken(SubSeq(s, kl[1], kl[2]))
                  => (ij[1] < kl[1] \/ (ij[1] = kl[1] /\ kl[2] <= ij[2]))}

\* v is the decimal value of the token t: v * 10^(fraction digits) is the
\* integer spelled by t's digits
IsValueOf(v, t) ==
    LET ds == SelectSeq(t, IsDigit)
        dots == {i \in 1..Len(t) : t[i] = "."}
        nfrac == IF dots = {} THEN 0 ELSE Len(t) - (CHOOSE i \in dots : TRUE)
    IN  ~v.nan /\ v.num * Pow10(nfrac) = IntOf(ds) * v.den

ParseNumberContract(c, v) ==
    IF c.na \/ HasRangeText(c.s) \/ FirstNumberTokens(c.s) = {}
    THEN v = NaN
    ELSE \E ij \in FirstNumberTokens(c.s) : IsValueOf(v, SubSeq(c.s, ij[1], ij[2]))

\* C7: parse_number (and parse_num) returns missing for missing input and for
\* every text containing a range digits-hyphen-digits; for every other text
\* the value of the first maximal token integer or integer.fraction, and
\* missing when there is no such token.
C7_ParseNumberContract ==
    (pc = "returned" /\ result.fn \in {"main.parse_number", "stuff.parse_num"})
        => ParseNumberContract(x, result.number)

\* C7 witness: a token with a fraction inside other text is extracted, and a
\* spaced range is rejected
C7_Witness ==
    /\ pc = "returned" /\ result.fn = "main.parse_number"
    /\ \/ x = Text(<<"h", "1", ".", "5">>) /\ result.number = Rat(3, 2)
       \/ x = Text(<<"1", " ", "-", "5">>) /\ result.number = NaN

-----------------------------------------------------------------------------
(* Properties of the two scripts *)

AfterBuildMain == {"flags", "filter", "summary", "export", "done"}

AfterFlagsMain == {"filter", "summary", "export", "done"}

AfterFilterMain == {"summary", "export", "done"}

AfterFilterStuff == {"save", "charts", "tests", "done"}

LacksRequired(cols) ==
    \/ cols \cap Range(PathwayCandidates) = {}
    \/ cols \cap Range(DailyNormalCandidates) = {}

\* C1: when the header set of main.py's input has none of the pathway
\* candidates or none of the daily-normal candidates, the run never gets past
\* the column check, the check raises the configuration error carrying all
\* discovered headers, and no output file is ever written.
C1_MissingRequiredColumnAborts ==
    (script = "main.py" /\ file_exists /\ LacksRequired(columns)) =>
        /\ files = {}
        /\ pc \in {"start", "load", "mapping", "check", "raised"}
        /\ pc = "check" => (ENABLED MainMissingColumns /\ ~ENABLED MainBuildClean)
        /\ pc = "raised" => (error.type = "ValueError" /\ error.found = columns)

\* C1 witness: a file with a pathway column, rows, and no daily-hours column
\* has ended in the configuration error
C1_Witness ==
    /\ script = "main.py" /\ pc = "raised" /\ error.type = "ValueError"
    /\ H_Pathway1 \in columns /\ error.missing = {"daily_normal"}
    /\ df_raw # <<>> /\ "Timestamp" \in error.found

InTable(r, table) == \E j \in DOMAIN table : table[j] = r

\* a subsequence keeps rows in their order
IsSubTable(sub, table) ==
    \A j, k \in DOMAIN sub :
        j < k => \E a, b \in DOMAIN table : a < b /\ table[a] = sub[j] /\ table[b] = sub[k]

\* C2: in main.py a derived record is in df_analysis iff its pathway is JC or
\* Poly, its daily value is present and its outlier flag is false; a record
\* with a daily value in (8, 12] is never left out for that.
C2_AnalysisSetMain ==
    (script = "main.py" /\ pc \in AfterFilterMain) =>
        /\ \A j \in DOMAIN df_analysis : InTable(df_analysis[j], df)
        /\ IsSubTable(df_analysis, df)
        /\ \A i \in DOMAIN df :
              /\ InTable(df[i], df_analysis) <=>
                    /\ df[i].Pathway \in {"JC", "Poly"}
                    /\ ~df[i].StudyHours_Daily_Normal.nan
                    /\ ~df[i].Flag_OutlierDaily
              /\ ( /\ df[i].Pathway \in {"JC", "Poly"}
                   /\ FGt(df[i].StudyHours_Daily_Normal, Num(8))
                   /\ FLe(df[i].StudyHours_Daily_Normal, Num(12)) )
                    => (df[i].Flag_VeryHighDaily /\ InTable(df[i], df_analysis))

\* C2 witness: a very high value is kept while an outlier is dropped
C2_Witness ==
    /\ script = "main.py" /\ pc \in AfterFilterMain
    /\ \E i, k \in DOMAIN df :
          /\ df[i].Flag_VeryHighDaily /\ InTable(df[i], df_analysis)
          /\ df[k].Flag_OutlierDaily /\ df[k].Pathway = "Poly" /\ ~InTable(df[k], df_analysis)

Row(index) == df[index + 1]

SampleFrom(series, group, in_range) ==
    \A k \in DOMAIN series :
        /\ series[k].index + 1 \in DOMAIN df
        /\ Row(series[k].index).Pathway = group
        /\ ~Row(series[k].index).StudyHours_Daily_Normal.nan
        /\ series[k].value = Row(series[k].index).StudyHours_Weekly_Normal
        /\ in_range =>
              /\ FLe(Num(0), Row(series[k].index).StudyHours_Daily_Normal)
              /\ FLe(Row(series[k].index).StudyHours_Daily_Normal, Num(12))

\* C3 as stated: every value entering stuff.py's two t-tests comes from a
\* record with pathway JC or Poly whose daily value is present and within
\* [0, 12].
C3_TestValuesWithinPlausibleRange ==
    (script = "stuff.py" /\ pc = "done") =>
        /\ SampleFrom(tests.poly_weekly, "Poly", TRUE)
        /\ SampleFrom(tests.jc_weekly, "JC", TRUE)

\* C3 amended: every value entering stuff.py's two t-tests is the weekly
\* value of a record with pathway Poly (GroupPoly) or JC (GroupJC) whose daily
\* value is present; values above 12 hours a day are kept.
C3_TestValuesFromPathwayAndPresentDaily ==
    (script = "stuff.py" /\ pc = "done") =>
        /\ SampleFrom(tests.poly_weekly, "Poly", FALSE)
        /\ SampleFrom(tests.jc_weekly, "JC", FALSE)

\* C3 witness: a value above 12 hours a day has entered the tests
C3_Witness ==
    /\ script = "stuff.py" /\ pc = "done"
    /\ \E k \in DOMAIN tests.poly_weekly :
          /\ FGt(Row(tests.poly_weekly[k].index).StudyHours_Daily_Normal, Num(12))
          /\ tests.poly_weekly[k].value = Num(91)

\* C4: whenever a group of the analysis set has fewer than 2 members and its
\* standard deviation (main.py's summary) or a t-test over it (stuff.py) has
\* been computed, an insufficient-sample-size error has been signalled.
C4_InsufficientSampleSignalled ==
    ( /\ \/ script = "main.py" /\ pc \in {"export", "done"}
         \/ script = "stuff.py" /\ pc = "done"
      /\ (Len(df_poly) < 2 \/ Len(df_jc) < 2) )
        => error.type = "InsufficientSampleSize"

\* C5: in main.py stress_reason_raw is the empty string when the stress-reason
\* column is absent and when the row's cell is missing, and the cell's text
\* otherwise.
C5_StressReasonRaw ==
    (script = "main.py" /\ pc \in AfterBuildMain) =>
        \A i \in DOMAIN df :
            df[i].StressReason_Raw =
                IF columns \cap Range(StressReasonCandidates) = {} THEN Text(<<>>)
                ELSE IF CellOf(df_raw[i], col.stress_reason).na THEN Text(<<>>)
                ELSE CellOf(df_raw[i], col.stress_reason)

NonNegative(v) == v.nan \/ v.num >= 0

\* C8: in main.py every derived daily, exam-week and stress value is missing
\* or non-negative, whatever sign the cell text carries, and no record is
\* flagged outlier_daily except for a daily value above 12.
C8_ParsedValuesNonNegative ==
    /\ (script = "main.py" /\ pc \in AfterBuildMain) =>
          \A i \in DOMAIN df :
              /\ NonNegative(df[i].StudyHours_Daily_Normal)
              /\ NonNegative(df[i].StudyHours_Daily_Exam)
              /\ NonNegative(df[i].StressLevel)
    /\ (script = "main.py" /\ pc \in AfterFlagsMain) =>
          \A i \in DOMAIN df :
              df[i].Flag_OutlierDaily => FGt(df[i].StudyHours_Daily_Normal, Num(12))

\* C8 witness: cells written with a minus sign were parsed and not flagged
C8_Witness ==
    /\ script = "main.py" /\ pc \in AfterFlagsMain
    /\ \E i \in DOMAIN df :
          /\ CellOf(df_raw[i], col.daily_normal) = Text(<<"-", "0", ".", "5">>)
          /\ df[i].StudyHours_Daily_Normal = Rat(1, 2)
          /\ CellOf(df_raw[i], col.stress) = Text(<<"-", "7">>)
          /\ df[i].StressLevel = Num(7)
          /\ ~df[i].Flag_OutlierDaily

Min(a, b) == IF a <= b THEN a ELSE b

WelchCase ==
    /\ script = "stuff.py" /\ pc = "done"
    /\ tests.nj >= 2 /\ tests.np_ >= 2
    /\ tests.nj # tests.np_
    /\ tests.sj2 # tests.sp2

\* C9 as stated: with both groups of size >= 2, unequal sizes and unequal
\* variances, df_welch lies strictly between min(n_jc, n_poly) - 1 and
\* n_jc + n_poly - 2.
C9_WelchDfStrictlyBetween ==
    WelchCase =>
        /\ FLt(Num(Min(tests.nj, tests.np_) - 1), tests.df_welch)
        /\ FLt(tests.df_welch, Num(tests.nj + tests.np_ - 2))

\* C9 amended: in that case df_welch lies between min(n_jc, n_poly) - 1 and
\* n_jc + n_poly - 2, both ends included; it is strictly inside when both
\* variances are non-zero and sj^2 / (nj (nj - 1)) differs from
\* sp^2 / (np (np - 1)).
C9_WelchDfBetween ==
    WelchCase =>
        /\ FLe(Num(Min(tests.nj, tests.np_) - 1), tests.df_welch)
        /\ FLe(tests.df_welch, Num(tests.nj + tests.np_ - 2))
        /\ ( /\ tests.sj2.num # 0 /\ tests.sp2.num # 0
             /\ FMul(tests.sj2, Num(tests.np_ * (tests.np_ - 1)))
                    # FMul(tests.sp2, Num(tests.nj * (tests.nj - 1))) )
              => /\ FLt(Num(Min(tests.nj, tests.np_) - 1), tests.df_welch)
                 /\ FLt(tests.df_welch, Num(tests.nj + tests.np_ - 2))

\* C9 witness: a Welch test over groups of 2 and 3 with a fractional df
C9_Witness ==
    /\ WelchCase
    /\ tests.nj = 2 /\ tests.np_ = 3
    /\ tests.df_welch.den > 1
    /\ FLt(Num(1), tests.df_welch) /\ FLt(tests.df_welch, Num(3))

Ids(table) == {table[j].RespondentID : j \in DOMAIN table}

\* C10: in both scripts df_jc and df_poly are disjoint and together are
\* exactly df_analysis: every analysis record is in exactly one of them and
\* no other record is in either.
C10_GroupsPartitionAnalysis ==
    ( \/ script = "main.py" /\ pc \in AfterFilterMain
      \/ script = "stuff.py" /\ pc \in AfterFilterStuff ) =>
        /\ Ids(df_jc) \cap Ids(df_poly) = {}
        /\ Ids(df_jc) \cup Ids(df_poly) = Ids(df_analysis)
        /\ Range(df_jc) \cup Range(df_poly) = Range(df_analysis)
        /\ Len(df_jc) + Len(df_poly) = Len(df_analysis)
        /\ \A i \in DOMAIN df :
              ~InTable(df[i], df_analysis) =>
                  (~InTable(df[i], df_jc) /\ ~InTable(df[i], df_poly))

\* C10 witness: the analysis set has been split into two non-empty groups
C10_Witness ==
    /\ script = "main.py" /\ pc \in AfterFilterMain
    /\ df_jc # <<>> /\ df_poly # <<>>
    /\ Len(df_analysis) = 2

====
